---- MODULE Spec2Model ----
(***************************************************************************)
(* Model of sympy/combinatorics/graycode.py: the GrayCode generator, the   *)
(* subset codec, gray_code_subsets and rank/unrank of Gray codes.          *)
(* Lists are sequences, the symbols '0'/'1' are the strings "0"/"1".       *)
(***************************************************************************)
EXTENDS Integers, Sequences, FiniteSets, TLC

\* ---- bounds of the model ------------------------------------------------
MaxBits == 6    \* largest n of GrayCode(n)
MaxRankBits == 12   \* longest code of rank_gray_code, largest n of unrank_gray_code
MaxLen == 3     \* longest superset / subset / bitlist of the subset codec
NumElems == 3   \* number of distinct values a superset element can take

Elems == 1..NumElems
Bit == {"0", "1"}

BitVectors(n) == [1..n -> Bit]
BitVectorsUpTo(n) == UNION {BitVectors(m) : m \in 0..n}
ListsUpTo(S, n) == UNION {[1..m -> S] : m \in 0..n}

\* ---- Python integer and list primitives ---------------------------------
\* a ^ b on non-negative (unbounded) Python ints
RECURSIVE xor(_, _)
xor(a, b) ==
    IF a = 0 THEN b
    ELSE IF b = 0 THEN a
    ELSE (((a % 2) + (b % 2)) % 2) + 2 * xor(a \div 2, b \div 2)

\* a >> 1
shr1(a) == a \div 2

\* str(d) for the only values it is applied to, k % 2
str(d) == IF d = 0 THEN "0" ELSE "1"

\* the binary digits of x, most significant first, "0" for 0
RECURSIVE digits(_)
digits(x) == IF x < 2 THEN <<str(x)>> ELSE Append(digits(x \div 2), str(x % 2))

\* list(bin(x)): the characters of '0b...'
bin(x) == <<"0", "b">> \o digits(x)

\* [v] * m ; a non-positive m gives the empty list
repeat(v, m) == [j \in 1..(IF m > 0 THEN m ELSE 0) |-> v]

\* v in lst
contains(lst, v) == \E j \in 1..Len(lst) : lst[j] = v

\* lst.index(v), 1-based; only applied when v in lst
index(lst, v) == CHOOSE j \in 1..Len(lst) : lst[j] = v /\ \A h \in 1..(j - 1) : lst[h] # v

\* lst.remove(v): drops the first occurrence of v; only applied when v in lst
remove(lst, v) ==
    LET p == index(lst, v)
    IN  SubSeq(lst, 1, p - 1) \o SubSeq(lst, p + 1, Len(lst))

\* list.reverse
reverse(lst) == [j \in 1..Len(lst) |-> lst[(Len(lst) + 1) - j]]

\* ---- GrayCode.get_next_bitlist ------------------------------------------
\* retlist = list(bin(graycode))[2:]
retlist(graycode) == SubSeq(bin(graycode), 3, Len(bin(graycode)))

\* the yielded value: ['0'] * (self.get_n - len(retlist)) + retlist
yield_value_rightpad(get_n, graycode) ==
    retlist(graycode) \o repeat("0", get_n - Len(retlist(graycode)))
yield_value(get_n, graycode) ==
    repeat("0", get_n - Len(retlist(graycode))) \o retlist(graycode)

\* bbtc = i ^ (i + 1)
bbtc(i) == xor(i, i + 1)

\* gbtc = bbtc ^ (bbtc >> 1)
gbtc_noshift(i) == bbtc(i)
gbtc(i) == xor(bbtc(i), shr1(bbtc(i)))

\* graycode = graycode ^ gbtc
next_graycode(i, graycode) == xor(graycode, gbtc(i))

\* 1 << bits
shl1(bits) == 2 ^ bits

\* list(GrayCode(n).get_next_bitlist()): the loop run to exhaustion
RECURSIVE run_generator(_, _, _, _)
run_generator(n, i, graycode, acc) ==
    IF i >= shl1(n) THEN acc
    ELSE run_generator(n, i + 1, next_graycode(i, graycode),
                       Append(acc, yield_value(n, graycode)))

list_get_next_bitlist(n) == run_generator(n, 0, 0, <<>>)

\* ---- get_subset_from_bitlist --------------------------------------------
\* the test of line 103
length_mismatch_lt(super_set, bitlist) == Len(super_set) < Len(bitlist)
length_mismatch(super_set, bitlist) == Len(super_set) # Len(bitlist)

\* the test of line 107
drops_one(bitlist, i) == bitlist[i] = "1"
drops(bitlist, i) == bitlist[i] = "0"

\* the for loop over xrange(len(bitlist)); frame holds the three lists of the
\* call: the caller's super_set and bitlist, and the copy ret_set.
RECURSIVE subset_loop(_, _)
subset_loop(frame, i) ==
    IF i > Len(frame.bitlist)
    THEN [kind |-> "return", value |-> frame.ret_set,
          args |-> [super_set |-> frame.super_set, bitlist |-> frame.bitlist]]
    ELSE IF drops(frame.bitlist, i)
    THEN IF contains(frame.ret_set, frame.super_set[i])
         THEN subset_loop([frame EXCEPT !.ret_set = remove(@, frame.super_set[i])], i + 1)
         ELSE [kind |-> "raise", exc |-> "ValueError",
               args |-> [super_set |-> frame.super_set, bitlist |-> frame.bitlist]]
    ELSE subset_loop(frame, i + 1)

get_subset_from_bitlist(super_set, bitlist) ==
    IF length_mismatch(super_set, bitlist)
    THEN [kind |-> "raise", exc |-> "ValueError",
          args |-> [super_set |-> super_set, bitlist |-> bitlist]]
    ELSE subset_loop([super_set |-> super_set, bitlist |-> bitlist,
                      ret_set |-> super_set], 1)

\* ---- get_bitlist_from_subset --------------------------------------------
\* the position written by line 122
mark_index_mirrored(superset, v) == (Len(superset) + 1) - index(superset, v)
mark_index(superset, v) == index(superset, v)

RECURSIVE bitlist_loop(_, _)
bitlist_loop(frame, j) ==
    IF j > Len(frame.subset)
    THEN [kind |-> "return", value |-> frame.bitlist,
          args |-> [subset |-> frame.subset, superset |-> frame.superset]]
    ELSE IF contains(frame.superset, frame.subset[j])
    THEN bitlist_loop([frame EXCEPT
                         !.bitlist[mark_index(frame.superset, frame.subset[j])] = "1"],
                      j + 1)
    ELSE [kind |-> "raise", exc |-> "ValueError",
          args |-> [subset |-> frame.subset, superset |-> frame.superset]]

get_bitlist_from_subset(subset, superset) ==
    bitlist_loop([subset |-> subset, superset |-> superset,
                  bitlist |-> repeat("0", Len(superset))], 1)

\* ---- gray_code_subsets --------------------------------------------------
gray_code_subsets(gray_code_set) ==
    LET bitlists == list_get_next_bitlist(Len(gray_code_set))
        outs == [j \in 1..Len(bitlists) |->
                    get_subset_from_bitlist(gray_code_set, bitlists[j])]
    IN  IF \E j \in 1..Len(outs) : outs[j].kind = "raise"
        THEN [kind |-> "raise", exc |-> "ValueError",
              args |-> [gray_code_set |-> gray_code_set]]
        ELSE [kind |-> "return", value |-> [j \in 1..Len(outs) |-> outs[j].value],
              args |-> [gray_code_set |-> gray_code_set]]

\* ---- rank_gray_code / unrank_gray_code ----------------------------------
RECURSIVE rank_gray_code(_)
rank_gray_code(code) ==
    IF Len(code) = 0 THEN 0
    ELSE IF code[Len(code)] = "0"
    THEN rank_gray_code(SubSeq(code, 1, Len(code) - 1))
    ELSE ((2 ^ Len(code)) - rank_gray_code(SubSeq(code, 1, Len(code) - 1))) - 1

\* the inner helper of unrank_gray_code
RECURSIVE unrank_noreflect(_, _)
unrank_noreflect(k, n) ==
    IF n = 1 THEN <<str(k % 2)>>
    ELSE LET m == 2 ^ (n - 1)
         IN  IF k < m THEN <<"0">> \o unrank_noreflect(k, n - 1)
             ELSE <<"1">> \o unrank_noreflect(k % m, n - 1)
RECURSIVE unrank(_, _)
unrank(k, n) ==
    IF n = 1 THEN <<str(k % 2)>>
    ELSE LET m == 2 ^ (n - 1)
         IN  IF k < m THEN <<"0">> \o unrank(k, n - 1)
             ELSE <<"1">> \o unrank((m - (k % m)) - 1, n - 1)

unrank_gray_code_noreverse(k, n) == unrank(k, n)
unrank_gray_code(k, n) == reverse(unrank(k, n))

\* ---- the state machine --------------------------------------------------
VARIABLES op, pc, args, bits, i, graycode, yielded, result

vars == <<op, pc, args, bits, i, graycode, yielded, result>>

pending == [kind |-> "pending"]

\* what the caller sees of an outcome
visible(out) ==
    IF out.kind = "return" THEN [kind |-> "return", value |-> out.value]
    ELSE [kind |-> "raise", exc |-> out.exc]

InitGenerator ==
    /\ op = "get_next_bitlist" /\ pc = "created"
    /\ \E n \in 0..MaxBits : args = <<n>>

InitCall ==
    /\ pc = "call"
    /\ \/ /\ op = "get_subset_from_bitlist"
          /\ \E s \in ListsUpTo(Elems, MaxLen), b \in BitVectorsUpTo(MaxLen) :
                args = [super_set |-> s, bitlist |-> b]
       \/ /\ op = "get_bitlist_from_subset"
          /\ \E sub \in ListsUpTo(Elems, MaxLen), s \in ListsUpTo(Elems, MaxLen) :
                args = [subset |-> sub, superset |-> s]
       \/ /\ op = "gray_code_subsets"
          /\ \E s \in ListsUpTo(Elems, MaxLen) : args = [gray_code_set |-> s]
       \/ /\ op = "rank_gray_code"
          /\ \E c \in BitVectorsUpTo(MaxRankBits) : args = [code |-> c]
       \/ /\ op = "unrank_gray_code"
          /\ \E n \in 1..MaxRankBits : \E k \in 0..((2 ^ n) - 1) : args = [k |-> k, n |-> n]

Init ==
    /\ bits = 0 /\ i = 0 /\ graycode = 0 /\ yielded = <<>>
    /\ result = pending
    /\ (InitGenerator \/ InitCall)

\* first resumption of the generator: lines 79-80 and the loop entry
GetNextBitlistStart ==
    /\ op = "get_next_bitlist" /\ pc = "created"
    /\ bits' = args[1]
    /\ graycode' = 0
    /\ i' = 0
    /\ pc' = "loop"
    /\ UNCHANGED <<op, args, yielded, result>>

\* one iteration of the for loop, lines 82-86
GetNextBitlistYield ==
    /\ op = "get_next_bitlist" /\ pc = "loop"
    /\ i < shl1(bits)
    /\ yielded' = Append(yielded, yield_value(args[1], graycode))
    /\ graycode' = next_graycode(i, graycode)
    /\ i' = i + 1
    /\ UNCHANGED <<op, pc, args, bits, result>>

\* xrange(1 << bits) is exhausted: StopIteration
GetNextBitlistStop ==
    /\ op = "get_next_bitlist" /\ pc = "loop"
    /\ i >= shl1(bits)
    /\ pc' = "stopped"
    /\ UNCHANGED <<op, args, bits, i, graycode, yielded, result>>

GetSubsetFromBitlist ==
    /\ op = "get_subset_from_bitlist" /\ pc = "call"
    /\ LET out == get_subset_from_bitlist(args.super_set, args.bitlist)
       IN  result' = visible(out) /\ args' = out.args
    /\ pc' = "done"
    /\ UNCHANGED <<op, bits, i, graycode, yielded>>

GetBitlistFromSubset ==
    /\ op = "get_bitlist_from_subset" /\ pc = "call"
    /\ LET out == get_bitlist_from_subset(args.subset, args.superset)
       IN  result' = visible(out) /\ args' = out.args
    /\ pc' = "done"
    /\ UNCHANGED <<op, bits, i, graycode, yielded>>

GrayCodeSubsets ==
    /\ op = "gray_code_subsets" /\ pc = "call"
    /\ LET out == gray_code_subsets(args.gray_code_set)
       IN  result' = visible(out) /\ args' = out.args
    /\ pc' = "done"
    /\ UNCHANGED <<op, bits, i, graycode, yielded>>

RankGrayCode ==
    /\ op = "rank_gray_code" /\ pc = "call"
    /\ result' = [kind |-> "return", value |-> rank_gray_code(args.code)]
    /\ pc' = "done"
    /\ UNCHANGED <<op, args, bits, i, graycode, yielded>>

UnrankGrayCode ==
    /\ op = "unrank_gray_code" /\ pc = "call"
    /\ result' = [kind |-> "return", value |-> unrank_gray_code(args.k, args.n)]
    /\ pc' = "done"
    /\ UNCHANGED <<op, args, bits, i, graycode, yielded>>

Next ==
    \/ GetNextBitlistStart
    \/ GetNextBitlistYield
    \/ GetNextBitlistStop
    \/ GetSubsetFromBitlist
    \/ GetBitlistFromSubset
    \/ GrayCodeSubsets
    \/ RankGrayCode
    \/ UnrankGrayCode

Spec == Init /\ [][Next]_vars

\* ---- vocabulary of the properties ---------------------------------------
generating == op = "get_next_bitlist"
generated == op = "get_next_bitlist" /\ pc = "stopped"
returned(f) == op = f /\ pc = "done"

distinct(lst) == \A p, q \in 1..Len(lst) : p # q => lst[p] # lst[q]

hamming(a, b) == Cardinality({p \in 1..Len(a) : a[p] # b[p]})

\* the binary representation of x, most significant bit first, of width n
msb_binary(x, n) == [p \in 1..n |-> IF (x \div (2 ^ (n - p))) % 2 = 1 THEN "1" ELSE "0"]

\* the elements of s at the positions whose bit is '1', in the order of s
RECURSIVE selected(_, _, _)
selected(s, b, p) ==
    IF p > Len(s) THEN <<>>
    ELSE (IF b[p] = "1" THEN <<s[p]>> ELSE <<>>) \o selected(s, b, p + 1)

\* sub is an order-preserving sub-sequence of s
subsequence(sub, s) == \E b \in BitVectors(Len(s)) : sub = selected(s, b, 1)

without(lst, p) == SubSeq(lst, 1, p - 1) \o SubSeq(lst, p + 1, Len(lst))

\* b is a with exactly one element inserted, or with exactly one removed
one_element_apart(a, b) ==
    \/ \E p \in 1..Len(b) : without(b, p) = a
    \/ \E p \in 1..Len(a) : without(a, p) = b

\* ---- C1 -------------------------------------------------------------------
\* C1: for n >= 1 the vectors emitted by GrayCode(n).get_next_bitlist() form a
\* cyclic Gray code: 2^n vectors of length n over '0'/'1', pairwise distinct,
\* consecutive ones (the last and the first included) at Hamming distance 1.
C1_CyclicGrayCode ==
    (generated /\ bits >= 1) =>
        /\ Len(yielded) = 2 ^ bits
        /\ \A j \in 1..Len(yielded) :
              Len(yielded[j]) = bits /\ \A p \in 1..bits : yielded[j][p] \in Bit
        /\ distinct(yielded)
        /\ \A j \in 1..Len(yielded) :
              LET succ == yielded[(j % Len(yielded)) + 1]
              IN  Len(succ) = Len(yielded[j]) /\ hamming(yielded[j], succ) = 1

C1_Witness == generated /\ bits = MaxBits /\ Len(yielded) = 2 ^ MaxBits

\* ---- C2 -------------------------------------------------------------------
\* C2: rank_gray_code and unrank_gray_code are mutual inverses: the rank of
\* unrank_gray_code(k, n) is k for 0 <= k < 2^n, n >= 1, and unranking the rank
\* of a vector c of length n >= 1 gives c back.
C2_RankUnrankInverse ==
    /\ returned("unrank_gray_code") =>
          result.kind = "return" /\ rank_gray_code(result.value) = args.k
    /\ (returned("rank_gray_code") /\ Len(args.code) >= 1) =>
          result.kind = "return"
          /\ unrank_gray_code(result.value, Len(args.code)) = args.code

C2_Witness ==
    returned("unrank_gray_code") /\ args.n = MaxRankBits /\ args.k = (2 ^ MaxRankBits) - 2

\* ---- C3 -------------------------------------------------------------------
\* C3: for n >= 1 the vector emitted at index k by the generator has
\* rank_gray_code equal to k.
C3_RankIsGeneratorIndex ==
    (generating /\ bits >= 1) =>
        \A j \in 1..Len(yielded) : rank_gray_code(yielded[j]) = j - 1

\* ---- C4 -------------------------------------------------------------------
\* C4: for a superset of L >= 1 pairwise distinct elements gray_code_subsets
\* returns 2^L subsets, the first empty, each later one obtained from its
\* predecessor by inserting or removing exactly one element.
C4_SubsetsGrayCode ==
    (returned("gray_code_subsets") /\ Len(args.gray_code_set) >= 1
        /\ distinct(args.gray_code_set)) =>
        /\ result.kind = "return"
        /\ Len(result.value) = 2 ^ Len(args.gray_code_set)
        /\ result.value[1] = <<>>
        /\ \A j \in 2..Len(result.value) :
              one_element_apart(result.value[j - 1], result.value[j])

C4_Witness ==
    returned("gray_code_subsets") /\ Len(args.gray_code_set) = MaxLen
        /\ distinct(args.gray_code_set) /\ result.kind = "return"

\* ---- C5 -------------------------------------------------------------------
\* C5: GrayCode(0).get_next_bitlist() emits exactly one vector, the empty one,
\* and gray_code_subsets of the empty superset returns the single empty subset.
C5_ZeroBits ==
    /\ (generated /\ args[1] = 0) => yielded = << <<>> >>
    /\ (returned("gray_code_subsets") /\ args.gray_code_set = <<>>) =>
          result.kind = "return" /\ result.value = << <<>> >>

\* ---- C6 -------------------------------------------------------------------
\* C6: for every superset, duplicates allowed, and every bitlist of the same
\* length, get_subset_from_bitlist returns the superset elements at the
\* positions whose bit is '1', in superset order.
C6_SubsetIsSelection ==
    (returned("get_subset_from_bitlist") /\ Len(args.super_set) = Len(args.bitlist)) =>
        result.kind = "return"
        /\ result.value = selected(args.super_set, args.bitlist, 1)

\* ---- C7 -------------------------------------------------------------------
\* C7: on a superset of pairwise distinct elements the two codec functions are
\* mutual inverses: bits -> subset -> bits gives the bitlist back, and
\* sub-sequence -> bits -> subset gives the sub-sequence back.
C7_CodecInverse ==
    /\ (returned("get_subset_from_bitlist") /\ distinct(args.super_set)
           /\ Len(args.bitlist) = Len(args.super_set)) =>
          result.kind = "return"
          /\ LET back == get_bitlist_from_subset(result.value, args.super_set)
             IN  back.kind = "return" /\ back.value = args.bitlist
    /\ (returned("get_bitlist_from_subset") /\ distinct(args.superset)
           /\ subsequence(args.subset, args.superset)) =>
          result.kind = "return"
          /\ LET back == get_subset_from_bitlist(args.superset, result.value)
             IN  back.kind = "return" /\ back.value = args.subset

C7_Witness ==
    returned("get_bitlist_from_subset") /\ distinct(args.superset)
        /\ Len(args.superset) = MaxLen /\ Len(args.subset) = 1
        /\ args.subset[1] = args.superset[MaxLen]
        /\ result.kind = "return"

\* ---- C8 -------------------------------------------------------------------
\* C8: get_subset_from_bitlist raises exactly when the two lengths differ and
\* get_bitlist_from_subset raises exactly when an element of subset is not in
\* superset; a raising call returns no value, and no call changes its arguments.
C8_AtomicFailure ==
    [][ /\ (op = "get_subset_from_bitlist" /\ pc = "call") =>
              /\ result'.kind \in {"return", "raise"}
              /\ result'.kind = "raise" <=> Len(args.super_set) # Len(args.bitlist)
              /\ result'.kind = "raise" => "value" \notin DOMAIN result'
              /\ args' = args
        /\ (op = "get_bitlist_from_subset" /\ pc = "call") =>
              /\ result'.kind \in {"return", "raise"}
              /\ result'.kind = "raise" <=>
                    \E j \in 1..Len(args.subset) : ~contains(args.superset, args.subset[j])
              /\ result'.kind = "raise" => "value" \notin DOMAIN result'
              /\ args' = args
      ]_vars

C8_Witness ==
    returned("get_subset_from_bitlist") /\ result.kind = "raise"
        /\ Len(args.super_set) > Len(args.bitlist) /\ Len(args.bitlist) >= 1

C10_UnrankIsReversedGenerator ==
    (generating /\ bits >= 1) =>
        \A j \in 1..Len(yielded) :
            /\ unrank_gray_code(j - 1, bits) = reverse(yielded[j])
            /\ rank_gray_code(reverse(yielded[j])) = j - 1

C10_Witness == generated /\ bits >= 3 /\ Len(yielded) = 2 ^ bits
====
